---- MODULE Spec2Model ----
(***************************************************************************)
(* vcf2csv: conversion of vCard 2.1 text to an Outlook 2003 CSV file.      *)
(*                                                                         *)
(* Text is modelled as a sequence of code points, so that the regular      *)
(* expressions, str.replace, the quoted-printable decoding and the UTF-8   *)
(* decoding are computed character by character as the program does.       *)
(* Column names are TLA+ strings; None is the value NoneValue.             *)
(***************************************************************************)
EXTENDS Integers, Sequences, FiniteSets, TLC

\* ------------------------------------------------------------------------
\* Bounds of the model
\* ------------------------------------------------------------------------

\* largest number of input pieces (single lines or whole blocks) in a file
MaxChunks == 3
\* longest phone list assigned to a row on its own
MaxPhones == 14
\* largest number of assignments made to one row on its own
MaxOps == 2

\* largest number of positional arguments given to main
MaxArgs == 3

\* ------------------------------------------------------------------------
\* Text
\* ------------------------------------------------------------------------

\* code points of the characters the model's texts are written with
Ord ==
    [c \in {"\n", " ", "+", ",", "-", "0", "1", "2", "3", "4", "5", "6",
            "7", "8", "9", ":", ";", "=", "A", "B", "C", "D", "E", "F",
            "G", "I", "L", "N", "O", "R", "T", "V", "_", "a", "b", "x"} |->
        CASE c = "\n" -> 10 [] c = " " -> 32 [] c = "+" -> 43
          [] c = "," -> 44 [] c = "-" -> 45
          [] c = "0" -> 48 [] c = "1" -> 49 [] c = "2" -> 50
          [] c = "3" -> 51 [] c = "4" -> 52 [] c = "5" -> 53
          [] c = "6" -> 54 [] c = "7" -> 55 [] c = "8" -> 56
          [] c = "9" -> 57 [] c = ":" -> 58 [] c = ";" -> 59
          [] c = "=" -> 61
          [] c = "A" -> 65 [] c = "B" -> 66 [] c = "C" -> 67
          [] c = "D" -> 68 [] c = "E" -> 69 [] c = "F" -> 70
          [] c = "G" -> 71 [] c = "I" -> 73 [] c = "L" -> 76
          [] c = "N" -> 78 [] c = "O" -> 79 [] c = "R" -> 82
          [] c = "T" -> 84 [] c = "V" -> 86 [] c = "_" -> 95
          [] c = "a" -> 97 [] c = "b" -> 98 [] c = "x" -> 120]

\* the text written with the characters cs
T(cs) == [i \in 1..Len(cs) |-> Ord[cs[i]]]

\* None: no text holds a negative code point
NoneValue == <<0 - 1>>

Min(S) == CHOOSE m \in S : \A n \in S : m <= n

RECURSIVE Concat(_)
\* ''.join(ss)
Concat(ss) == IF ss = <<>> THEN <<>> ELSE Head(ss) \o Concat(Tail(ss))

\* s[from:] as a text (from is 1-based)
Suffix(s, from) == SubSeq(s, from, Len(s))

\* s.startswith(p)
StartsWith(s, p) == Len(s) >= Len(p) /\ SubSeq(s, 1, Len(p)) = p

\* p occurs in s at position i
OccursAt(s, p, i) == i + Len(p) - 1 <= Len(s) /\ SubSeq(s, i, i + Len(p) - 1) = p

RECURSIVE Replace(_, _, _)
\* s.replace(old, new): left to right, non-overlapping
Replace(s, old, new) ==
    IF s = <<>> THEN <<>>
    ELSE IF StartsWith(s, old) THEN new \o Replace(Suffix(s, Len(old) + 1), old, new)
    ELSE <<Head(s)>> \o Replace(Tail(s), old, new)

\* ------------------------------------------------------------------------
\* Regular expressions of the field extractor
\* ------------------------------------------------------------------------

\* \w on the texts of the model (ASCII letters, digits, underscore)
WordChars == (48..57) \cup (65..90) \cup (97..122) \cup {95}

\* the class [\w;,=]
KeyChars == WordChars \cup {Ord[";"], Ord[","], Ord["="]}

\* position of the first c in s at or after from, 0 when there is none
IndexFrom(s, c, from) ==
    LET hits == {j \in from..Len(s) : s[j] = c}
    IN  IF hits = {} THEN 0 ELSE Min(hits)

\* [\w;,=]+: matches at p: a non-empty run of class characters ended by ":"
KeyAt(s, p) ==
    LET stops == {j \in p..Len(s) : s[j] \notin KeyChars}
    IN  /\ stops # {}
        /\ Min(stops) > p
        /\ s[Min(stops)] = Ord[":"]

\* rgx_fn matched with its "FN" at position i: the span of group 1, or <<>>
FnMatchAt(s, i) ==
    IF ~OccursAt(s, T(<<"F", "N">>), i) THEN <<>>
    ELSE LET colon == IndexFrom(s, Ord[":"], i + 2)
             ends  == {e \in (colon + 2)..Len(s) :
                          s[e] = Ord["\n"] /\ KeyAt(s, e + 1)}
         IN  IF colon = 0 \/ ends = {} THEN <<>>
             ELSE <<colon + 1, Min(ends) - 1>>

\* rgx_fn.search(s): group 1 of the leftmost match, NoneValue without one
rgx_fn_search(s) ==
    LET starts == {i \in 1..Len(s) : FnMatchAt(s, i) # <<>>}
    IN  IF starts = {} THEN NoneValue
        ELSE LET g == FnMatchAt(s, Min(starts))
             IN  SubSeq(s, g[1], g[2])

\* rgx_phone matched with its "TEL" at position i: the span of group 1, or <<>>
PhoneMatchAt(s, i) ==
    IF ~OccursAt(s, T(<<"T", "E", "L">>), i) THEN <<>>
    ELSE LET colon == IndexFrom(s, Ord[":"], i + 3)
             nl    == IF colon = 0 THEN 0 ELSE IndexFrom(s, Ord["\n"], colon + 1)
         IN  IF colon = 0 \/ nl = 0 \/ nl = colon + 1 THEN <<>>
             ELSE <<colon + 1, nl - 1>>

RECURSIVE rgx_phone_findall(_, _)
\* rgx_phone.findall(s), scanning from position p
rgx_phone_findall(s, p) ==
    LET starts == {i \in p..Len(s) : PhoneMatchAt(s, i) # <<>>}
    IN  IF starts = {} THEN <<>>
        ELSE LET g == PhoneMatchAt(s, Min(starts))
             IN  <<SubSeq(s, g[1], g[2])>> \o rgx_phone_findall(s, g[2] + 2)

\* extract_formatted_name: the name, or the failure of .group on None
extract_formatted_name(vcard_item) ==
    LET g == rgx_fn_search(vcard_item)
    IN  IF g = NoneValue THEN [err |-> "AttributeError", val |-> <<>>]
        ELSE [err |-> "", val |-> Replace(g, T(<<"\n">>), <<>>)]

extract_phones(vcard_item) == rgx_phone_findall(vcard_item, 1)

\* ------------------------------------------------------------------------
\* Quoted-printable and UTF-8 decoding of the name
\* ------------------------------------------------------------------------

IsHex(c) == c \in (48..57) \cup (65..70) \cup (97..102)

HexVal(c) == IF c \in 48..57 THEN c - 48
             ELSE IF c \in 65..70 THEN c - 55
             ELSE c - 87

RECURSIVE a2b_qp(_)
\* quopri.decodestring(s): the bytes of the quoted-printable text s
a2b_qp(s) ==
    IF s = <<>> THEN <<>>
    ELSE IF Head(s) # Ord["="] THEN <<Head(s)>> \o a2b_qp(Tail(s))
    ELSE IF Len(s) = 1 THEN <<>>
    ELSE IF s[2] = Ord["\n"] THEN a2b_qp(Suffix(s, 3))
    ELSE IF s[2] = 13 THEN
        LET nl == IndexFrom(s, Ord["\n"], 2)
        IN  IF nl = 0 THEN <<>> ELSE a2b_qp(Suffix(s, nl + 1))
    ELSE IF s[2] = Ord["="] THEN <<Ord["="]>> \o a2b_qp(Suffix(s, 3))
    ELSE IF Len(s) >= 3 /\ IsHex(s[2]) /\ IsHex(s[3])
        THEN <<16 * HexVal(s[2]) + HexVal(s[3])>> \o a2b_qp(Suffix(s, 4))
    ELSE <<Ord["="]>> \o a2b_qp(Tail(s))

IsCont(bs, i) == i <= Len(bs) /\ bs[i] \in 128..191

\* number of bytes of the well-formed UTF-8 sequence bs starts with, 0 if none
Utf8Len(bs) ==
    LET b == bs[1]
    IN  IF b < 128 THEN 1
        ELSE IF b \in 194..223 /\ IsCont(bs, 2) THEN 2
        ELSE IF /\ b \in 224..239
                /\ IsCont(bs, 2) /\ IsCont(bs, 3)
                /\ (b = 224 => bs[2] >= 160)
                /\ (b = 237 => bs[2] <= 159) THEN 3
        ELSE IF /\ b \in 240..244
                /\ IsCont(bs, 2) /\ IsCont(bs, 3) /\ IsCont(bs, 4)
                /\ (b = 240 => bs[2] >= 144)
                /\ (b = 244 => bs[2] <= 143) THEN 4
        ELSE 0

\* the code point of the UTF-8 sequence of n bytes at the head of bs
Utf8Point(bs, n) ==
    CASE n = 1 -> bs[1]
      [] n = 2 -> (bs[1] - 192) * 64 + (bs[2] - 128)
      [] n = 3 -> (bs[1] - 224) * 4096 + (bs[2] - 128) * 64 + (bs[3] - 128)
      [] n = 4 -> (bs[1] - 240) * 262144 + (bs[2] - 128) * 4096
                    + (bs[3] - 128) * 64 + (bs[4] - 128)

RECURSIVE utf8_decode(_)
\* bytes.decode('utf-8'), strict
utf8_decode(bs) ==
    IF bs = <<>> THEN [err |-> "", val |-> <<>>]
    ELSE LET n == Utf8Len(bs)
         IN  IF n = 0 THEN [err |-> "UnicodeDecodeError", val |-> <<>>]
             ELSE LET rest == utf8_decode(Suffix(bs, n + 1))
                  IN  IF rest.err # "" THEN rest
                      ELSE [err |-> "", val |-> <<Utf8Point(bs, n)>> \o rest.val]

\* the decoding done by the name setter in quoted-printable mode
decode_name(name) ==
    LET fixed == Replace(name, T(<<"=", "=">>), T(<<"=">>))
    IN  IF \E i \in 1..Len(fixed) : fixed[i] > 127
            THEN [err |-> "ValueError", val |-> <<>>]
        ELSE utf8_decode(a2b_qp(fixed))

\* ------------------------------------------------------------------------
\* CsvStructure
\* ------------------------------------------------------------------------

CSV_FILE_HEADERS == <<
    "Title", "First Name", "Middle Name", "Last Name", "Suffix",
    "Given Name Yomi", "Family Name Yomi", "Home Street", "Home City",
    "Home State", "Home Postal Code", "Home Country", "Company", "Department",
    "Job Title", "Office Location", "Business Street", "Business City",
    "Business State", "Business Postal Code", "Business Country",
    "Other Street", "Other City", "Other State", "Other Postal Code",
    "Other Country", "Assistant's Phone", "Business Fax", "Business Phone",
    "Business Phone 2", "Callback", "Car Phone", "Company Main Phone",
    "Home Fax", "Home Phone", "Home Phone 2", "ISDN", "Mobile Phone",
    "Other Fax", "Other Phone", "Pager", "Primary Phone", "Radio Phone",
    "TTY/TDD Phone", "Telex", "Anniversary", "Birthday",
    "E-mail Address", "E-mail Type", "E-mail 2 Address",
    "E-mail 2 Type", "E-mail 3 Address", "E-mail 3 Type", "Notes",
    "Spouse", "Web Page" >>

\* C6 mutant: the key order of the rows differs from the header in its first
\* two columns
ordered_keys_swapped ==
    <<CSV_FILE_HEADERS[2], CSV_FILE_HEADERS[1]>>
        \o SubSeq(CSV_FILE_HEADERS, 3, Len(CSV_FILE_HEADERS))

ordered_keys == CSV_FILE_HEADERS

\* C10 mutant: a phone cell named by a key that is no column
phone_cells_misnamed == <<
    "Mobile Phone", "Primary Phone", "Other Phone", "Home Phone",
    "Home Phone 2", "Business Phone", "Business Phone 2",
    "Radio Phone", "TTY/TDD Phone", "Car Phone", "Company Main Phone",
    "Assistant Phone" >>

phone_cells == <<
    "Mobile Phone", "Primary Phone", "Other Phone", "Home Phone",
    "Home Phone 2", "Business Phone", "Business Phone 2",
    "Radio Phone", "TTY/TDD Phone", "Car Phone", "Company Main Phone",
    "Assistant's Phone" >>

Range(f) == {f[i] : i \in DOMAIN f}

\* CsvStructure(quote_printed): every column None
NewCsvStructure(quote_printed) ==
    [fields |-> [k \in Range(ordered_keys) |-> NoneValue],
     quote_printed |-> quote_printed]

\* itemgetter(*ordered_keys)(fields)
as_tuple(item) == [j \in 1..Len(ordered_keys) |-> item.fields[ordered_keys[j]]]

\* item[key] = value
setitem(item, key, value) ==
    IF key \in Range(ordered_keys)
        THEN [err |-> "", item |-> [item EXCEPT !.fields[key] = value]]
    ELSE [err |-> "KeyError", item |-> item]

\* item.name = name
name_setter(item, name) ==
    LET d == IF item.quote_printed THEN decode_name(name)
             ELSE [err |-> "", val |-> name]
    IN  IF d.err # "" THEN [err |-> d.err, item |-> item]
        ELSE [err |-> "", item |-> [item EXCEPT !.fields["First Name"] = d.val]]

\* C4 mutant: the offsets counted from 0 (enumerate without start=1)
cell_names_from_zero(offset) ==
    LET upto == SubSeq(phone_cells, 1, IF offset - 1 < Len(phone_cells) THEN offset - 1
                                       ELSE Len(phone_cells))
    IN  IF upto = <<>> THEN <<>> ELSE <<upto[Len(upto)]>>

\* phone_cells[:offset][-1:]: the cell names selected for offset, none or one
cell_names(offset) ==
    LET upto == SubSeq(phone_cells, 1, IF offset < Len(phone_cells) THEN offset
                                       ELSE Len(phone_cells))
    IN  IF upto = <<>> THEN <<>> ELSE <<upto[Len(upto)]>>

RECURSIVE phones_from(_, _, _)
\* the loop of the phones setter from offset on
phones_from(item, phones_list, offset) ==
    IF offset > Len(phones_list) THEN [err |-> "", item |-> item]
    ELSE LET cells == cell_names(offset)
         IN  IF cells = <<>> THEN phones_from(item, phones_list, offset + 1)
             ELSE LET r == setitem(item, cells[1], phones_list[offset])
                  IN  IF r.err # "" THEN r
                      ELSE phones_from(r.item, phones_list, offset + 1)

\* item.phones = phones_list
phones_setter(item, phones_list) == phones_from(item, phones_list, 1)

\* csv.writer.writerow: None is written as the empty text
writerow(values) ==
    [j \in 1..Len(values) |-> IF values[j] = NoneValue THEN <<>> ELSE values[j]]

\* C5 mutant: the header written inside the loop, once per item
to_file_header_per_item(items) ==
    [opened  |-> TRUE,
     headers |-> [i \in 1..Len(items) |-> CSV_FILE_HEADERS],
     rows    |-> [i \in 1..Len(items) |-> writerow(as_tuple(items[i]))]]

\* CsvCollection.to_file: the file written for the items of the collection
to_file(items) ==
    [opened  |-> TRUE,
     headers |-> <<CSV_FILE_HEADERS>>,
     rows    |-> [i \in 1..Len(items) |-> writerow(as_tuple(items[i]))]]

\* no output file has been opened
NoFile == [opened |-> FALSE, headers |-> <<>>, rows |-> <<>>]

\* ------------------------------------------------------------------------
\* Input files of the model
\* ------------------------------------------------------------------------

BEGIN_VCARD == T(<<"B", "E", "G", "I", "N", ":", "V", "C", "A", "R", "D">>)
END_VCARD   == T(<<"E", "N", "D", ":", "V", "C", "A", "R", "D">>)

L_BEGIN  == BEGIN_VCARD \o T(<<"\n">>)
L_END    == END_VCARD \o T(<<"\n">>)
L_FN_a   == T(<<"F", "N", ":", "a", "\n">>)
L_FN_b   == T(<<"F", "N", ":", "b", "=", "=", "\n">>)
L_FN_qp  == T(<<"F", "N", ";", "x", ":", "=", "C", "3", "=", "A", "9", "\n">>)
L_FN_bad == T(<<"F", "N", ":", "=", "F", "F", "\n">>)
L_FOLD   == T(<<" ", "x", "\n">>)
L_TEL_1  == T(<<"T", "E", "L", ":", "1", "\n">>)
L_TEL_2  == T(<<"T", "E", "L", ";", "C", "E", "L", "L", ":", "+", "2", "\n">>)
L_NOTE   == T(<<"N", "O", "T", "E", ":", "F", "N", "O", "R", "D", "\n">>)

\* the line "TEL:nn"
L_TEL(n) == T(<<"T", "E", "L", ":">>) \o <<48 + (n \div 10), 48 + (n % 10)>> \o T(<<"\n">>)

\* a record with one more phone number than there are phone columns
ManyPhones ==
    <<L_BEGIN, L_FN_b>> \o [n \in 1..(Len(phone_cells) + 1) |-> L_TEL(n)] \o <<L_END>>

\* the pieces input files are made of: single lines and whole records
Chunks ==
    { <<L_BEGIN>>, <<L_END>>, <<L_FN_a>>, <<L_FN_bad>>, <<L_TEL_1>>, <<L_NOTE>>,
      <<L_BEGIN, L_FN_a, L_TEL_1, L_END>>,
      <<L_BEGIN, L_TEL_2, L_FN_qp, L_FOLD, L_TEL_1, L_END>>,
      ManyPhones }

\* the files made of at most MaxChunks pieces, as sequences of lines
InputFiles ==
    {Concat(cs) : cs \in UNION {[1..n -> Chunks] : n \in 0..MaxChunks}}

\* ------------------------------------------------------------------------
\* State
\* ------------------------------------------------------------------------

VARIABLES
    pc,              \* position of the program
    nargs,           \* len(args) of main
    quote_printed,   \* options.quote_printed
    vcf_lines,       \* the lines of the input file
    pos,             \* number of lines read from the input file
    buffer,          \* vcards_reader: buffer
    is_vcard,        \* vcards_reader: is_vcard
    vcard,           \* vcf_to_csv: the block held by the loop
    csv_collection,  \* items of the CsvCollection
    csv_file,        \* the output file
    outcome,         \* how the program ended
    emitted,         \* history: the blocks yielded by vcards_reader
    item,            \* a CsvStructure used on its own
    ops              \* history: the assignments made to item

vars == <<pc, nargs, quote_printed, vcf_lines, pos, buffer, is_vcard, vcard,
          csv_collection, csv_file, outcome, emitted, item, ops>>

reader_vars == <<vcf_lines, pos, buffer, is_vcard, vcard, emitted>>

\* ------------------------------------------------------------------------
\* main and vcf_to_csv
\* ------------------------------------------------------------------------

Init ==
    /\ pc = "main"
    /\ nargs = 0
    /\ quote_printed \in BOOLEAN
    /\ vcf_lines \in InputFiles
    /\ pos = 0
    /\ buffer = <<>>
    /\ is_vcard = FALSE
    /\ vcard = NoneValue
    /\ csv_collection = <<>>
    /\ csv_file = NoFile
    /\ outcome = ""
    /\ emitted = <<>>
    /\ item = NewCsvStructure(FALSE)
    /\ ops = <<>>

\* main called with n positional arguments: the conversion starts, or
\* os.exit is looked up, which the os module does not have
Main(n) ==
    /\ pc = "main"
    /\ nargs' = n
    /\ IF n \in {1, 2}
         THEN /\ pc' = "next"
              /\ csv_collection' = <<>>
              /\ outcome' = outcome
         ELSE /\ pc' = "done"
              /\ outcome' = "AttributeError"
              /\ UNCHANGED csv_collection
    /\ UNCHANGED <<quote_printed, csv_file, item, ops>>
    /\ UNCHANGED reader_vars

\* C8 mutant: the buffer is not truncated after the yield
ResumeKeepBuffer ==
    /\ pc = "next"
    /\ pc' = "read"
    /\ UNCHANGED <<nargs, quote_printed, vcf_lines, pos, buffer, is_vcard, vcard,
                   csv_collection, csv_file, outcome, emitted, item, ops>>

\* the for loop asks vcards_reader for the next block: the generator starts
\* with a new buffer and is_vcard False (as Init has it), or resumes after
\* its yield and empties the buffer
Resume ==
    /\ pc = "next"
    /\ pc' = "read"
    /\ buffer' = <<>>
    /\ UNCHANGED <<nargs, quote_printed, vcf_lines, pos, is_vcard, vcard,
                   csv_collection, csv_file, outcome, emitted, item, ops>>

\* C9 mutant: the blocks are all read before any is converted
\* (for vcard in list(vcards_reader(vcf_file)))
ReadLineAhead ==
    /\ pc = "read"
    /\ pos < Len(vcf_lines)
    /\ LET line == vcf_lines[pos + 1]
       IN  /\ pos' = pos + 1
           /\ IF StartsWith(line, BEGIN_VCARD)
                THEN /\ is_vcard' = TRUE
                     /\ buffer' = buffer \o line
                     /\ UNCHANGED <<vcard, emitted>>
              ELSE IF StartsWith(line, END_VCARD)
                THEN /\ is_vcard' = FALSE
                     /\ vcard' = buffer \o line
                     /\ emitted' = Append(emitted, buffer \o line)
                     /\ buffer' = <<>>
              ELSE /\ buffer' = buffer \o line
                   /\ UNCHANGED <<is_vcard, vcard, emitted>>
    /\ UNCHANGED <<pc, nargs, quote_printed, vcf_lines, csv_collection, csv_file,
                   outcome, item, ops>>

\* vcards_reader takes one line of the file
ReadLine ==
    /\ pc = "read"
    /\ pos < Len(vcf_lines)
    /\ LET line == vcf_lines[pos + 1]
       IN  /\ pos' = pos + 1
           /\ buffer' = buffer \o line
           /\ IF StartsWith(line, BEGIN_VCARD)
                THEN /\ is_vcard' = TRUE
                     /\ UNCHANGED <<pc, vcard, emitted>>
              ELSE IF StartsWith(line, END_VCARD)
                THEN /\ is_vcard' = FALSE
                     /\ vcard' = buffer'
                     /\ emitted' = Append(emitted, buffer')
                     /\ pc' = "body"
              ELSE UNCHANGED <<pc, is_vcard, vcard, emitted>>
    /\ UNCHANGED <<nargs, quote_printed, vcf_lines, csv_collection, csv_file,
                   outcome, item, ops>>

\* the file is exhausted: vcards_reader returns, the loop and the with block end
EndOfInput ==
    /\ pc = "read"
    /\ pos = Len(vcf_lines)
    /\ pc' = "to_file"
    /\ UNCHANGED <<nargs, quote_printed, csv_collection, csv_file, outcome,
                   item, ops>>
    /\ UNCHANGED reader_vars

\* the row built from a block: the body of the loop up to the append
build_item(block, qp) ==
    LET fn == extract_formatted_name(block)
        named == name_setter(NewCsvStructure(qp), fn.val)
    IN  IF fn.err # "" THEN [err |-> fn.err, item |-> NewCsvStructure(qp)]
        ELSE IF named.err # "" THEN named
        ELSE phones_setter(named.item, extract_phones(block))

\* C1 mutant: the new item put in front of the collection
append_front(items, new) == <<new>> \o items

\* CsvCollection.append
append(items, new) == Append(items, new)

\* the body of the loop for the block held: the row is appended, or the
\* exception ends the run
Convert ==
    /\ pc = "body"
    /\ LET r == build_item(vcard, quote_printed)
       IN  IF r.err # ""
             THEN /\ pc' = "done"
                  /\ outcome' = r.err
                  /\ UNCHANGED csv_collection
             ELSE /\ pc' = "next"
                  /\ csv_collection' = append(csv_collection, r.item)
                  /\ UNCHANGED outcome
    /\ UNCHANGED <<nargs, quote_printed, csv_file, item, ops>>
    /\ UNCHANGED reader_vars

\* csv_collection.to_file(csv_filepath)
ToFile ==
    /\ pc = "to_file"
    /\ csv_file' = to_file(csv_collection)
    /\ pc' = "done"
    /\ outcome' = "ok"
    /\ UNCHANGED <<nargs, quote_printed, csv_collection, item, ops>>
    /\ UNCHANGED reader_vars

Next ==
    \/ \E n \in 0..MaxArgs : Main(n)
    \/ Resume
    \/ ReadLine
    \/ EndOfInput
    \/ Convert
    \/ ToFile

Spec == Init /\ [][Next]_vars

\* ------------------------------------------------------------------------
\* A CsvStructure used on its own: assignments in any order, then the export
\* of a collection holding it
\* ------------------------------------------------------------------------

\* names assigned to the row
Names == { T(<<"a">>), T(<<"b", "=", "=">>), T(<<"=", "C", "3", "=", "A", "9">>),
           T(<<"=", "F", "F">>) }

\* the phone number written with the two digits of n
Phone(n) == <<48 + (n \div 10), 48 + (n % 10)>>

\* the list of the k phone numbers base+1 .. base+k
PhoneList(k, base) == [i \in 1..k |-> Phone(base + i)]

PhoneLists == {PhoneList(k, base) : k \in 0..MaxPhones, base \in {0, 50}}

\* keys tried with item[key] = value: three of the schema, one outside it
KeysTried == {"First Name", "Mobile Phone", "Notes", "Nickname"}

InitRow ==
    /\ pc = "row"
    /\ nargs = 0
    /\ quote_printed \in BOOLEAN
    /\ vcf_lines = <<>>
    /\ pos = 0
    /\ buffer = <<>>
    /\ is_vcard = FALSE
    /\ vcard = NoneValue
    /\ csv_collection = <<>>
    /\ csv_file = NoFile
    /\ outcome = ""
    /\ emitted = <<>>
    /\ item = NewCsvStructure(quote_printed)
    /\ ops = <<>>

\* the assignment op has been made to the row with result r
Assigned(op, key, args, r) ==
    /\ pc = "row"
    /\ Len(ops) < MaxOps
    /\ item' = r.item
    /\ ops' = Append(ops, [op |-> op, key |-> key, args |-> args, err |-> r.err])
    /\ UNCHANGED <<pc, nargs, quote_printed, csv_collection, csv_file, outcome>>
    /\ UNCHANGED reader_vars

\* item.name = name
RowSetName(name) == Assigned("name", "", <<name>>, name_setter(item, name))

\* item.phones = phones_list
RowSetPhones(phones_list) ==
    Assigned("phones", "", phones_list, phones_setter(item, phones_list))

\* item[key] = value
RowSetItem(key, value) == Assigned("item", key, <<value>>, setitem(item, key, value))

\* collection.append(item); collection.to_file(path)
RowExport ==
    /\ pc = "row"
    /\ pc' = "row_done"
    /\ csv_collection' = append(csv_collection, item)
    /\ csv_file' = to_file(csv_collection')
    /\ UNCHANGED <<nargs, quote_printed, outcome, item, ops>>
    /\ UNCHANGED reader_vars

NextRow ==
    \/ \E name \in Names : RowSetName(name)
    \/ \E phones_list \in PhoneLists : RowSetPhones(phones_list)
    \/ \E key \in KeysTried : RowSetItem(key, T(<<"x">>))
    \/ RowExport

SpecRow == InitRow /\ [][NextRow]_vars

\* ------------------------------------------------------------------------
\* What the properties are stated with
\* ------------------------------------------------------------------------

\* the lines read so far
LinesRead == SubSeq(vcf_lines, 1, pos)

\* positions of the lines that start with END:VCARD
EndPositions(lines) == {i \in 1..Len(lines) : StartsWith(lines[i], END_VCARD)}

\* number of END:VCARD lines
NumEnds(lines) == Cardinality(EndPositions(lines))

\* position of the k-th END:VCARD line, 0 for k = 0
NthEnd(lines, k) ==
    IF k = 0 THEN 0
    ELSE CHOOSE e \in EndPositions(lines) :
            Cardinality({x \in EndPositions(lines) : x <= e}) = k

\* the lines after the (k-1)-th END line up to and including the k-th
BlockLines(lines, k) == SubSeq(lines, NthEnd(lines, k - 1) + 1, NthEnd(lines, k))

\* the blocks a file splits into at its END lines
ExpectedBlocks(lines) == [k \in 1..NumEnds(lines) |-> Concat(BlockLines(lines, k))]

\* the text of the lines after the last END line
Pending(lines) ==
    Concat(SubSeq(lines, NthEnd(lines, NumEnds(lines)) + 1, Len(lines)))

\* the line is an FN field: FN, optional parameters, a colon
IsFnLine(line) ==
    \/ StartsWith(line, T(<<"F", "N", ":">>))
    \/ StartsWith(line, T(<<"F", "N", ";">>))

\* the line is a field line: a key and a colon
IsFieldLine(line) ==
    \E c \in 2..Len(line) :
        /\ line[c] = Ord[":"]
        /\ \A i \in 1..(c - 1) : line[i] \in KeyChars

\* a well-formed record: BEGIN first, END last and nowhere else, an FN field
\* followed by another field line, and no name that is not valid
\* quoted-printable UTF-8 when names are decoded
WellFormedBlock(ls) ==
    /\ Len(ls) >= 3
    /\ ls[1] = L_BEGIN
    /\ ls[Len(ls)] = L_END
    /\ \A i \in 2..(Len(ls) - 1) : ls[i] # L_BEGIN /\ ls[i] # L_END
    /\ \E i \in 2..(Len(ls) - 1) : IsFnLine(ls[i]) /\ IsFieldLine(ls[i + 1])
    /\ quote_printed => \A i \in 1..Len(ls) : ls[i] # L_FN_bad

\* a file made of well-formed records and nothing else
WellFormedFile ==
    /\ vcf_lines # <<>> => vcf_lines[Len(vcf_lines)] = L_END
    /\ \A k \in 1..NumEnds(vcf_lines) : WellFormedBlock(BlockLines(vcf_lines, k))

\* the row written for a block
ExpectedRow(block) == writerow(as_tuple(build_item(block, quote_printed).item))

\* the phone columns in the order of priority
PriorityColumns == <<
    "Mobile Phone", "Primary Phone", "Other Phone", "Home Phone", "Home Phone 2",
    "Business Phone", "Business Phone 2", "Radio Phone", "TTY/TDD Phone",
    "Car Phone", "Company Main Phone", "Assistant's Phone" >>

\* the value written for a column value
Emitted(value) == IF value = NoneValue THEN <<>> ELSE value

\* the conversion has run to its end
Converted == pc = "done" /\ nargs \in {1, 2}

\* ------------------------------------------------------------------------
\* C1
\* ------------------------------------------------------------------------

NoFnField(k) ==
    \A i \in 1..Len(BlockLines(vcf_lines, k)) : ~IsFnLine(BlockLines(vcf_lines, k)[i])

\* C2: a record without an FN field makes the run fail with no output file
\* opened, and the output file is opened only after every record has its row.
AbortsWithoutFn ==
    /\ (Converted /\ \E k \in 1..NumEnds(vcf_lines) : NoFnField(k)) =>
            (outcome # "ok" /\ ~csv_file.opened)
    /\ csv_file.opened =>
            (pos = Len(vcf_lines) /\ Len(csv_collection) = NumEnds(vcf_lines))

\* ------------------------------------------------------------------------
\* C3
\* ------------------------------------------------------------------------

\* C3: assigning more than 12 phones raises nothing and leaves the first 12
\* numbers in the 12 phone columns in priority order.
OverflowDropped ==
    \A n \in 1..Len(ops) :
        (n = Len(ops) /\ ops[n].op = "phones" /\ Len(ops[n].args) > 12) =>
            /\ ops[n].err = ""
            /\ \A i \in 1..12 : item.fields[PriorityColumns[i]] = ops[n].args[i]

\* ------------------------------------------------------------------------
\* C4
\* ------------------------------------------------------------------------

\* a new row was given a name and then at most 12 phones, undecoded
NamedThenPhoned ==
    /\ pc = "row_done"
    /\ ~quote_printed
    /\ Len(ops) = 2
    /\ ops[1].op = "name"
    /\ ops[2].op = "phones"
    /\ Len(ops[2].args) <= 12

\* C4: the row built from a name and k <= 12 phones without decoding has the
\* name in First Name, the i-th phone in the i-th priority column for i <= k,
\* and every other column unset and written empty.
RowOfNameAndPhones ==
    NamedThenPhoned =>
        \A j \in 1..Len(csv_file.headers[1]) :
            LET column == csv_file.headers[1][j]
                written == csv_file.rows[1][j]
                phones == ops[2].args
            IN  IF column = "First Name" THEN written = ops[1].args[1]
                ELSE IF \E i \in 1..Len(phones) : PriorityColumns[i] = column
                    THEN \A i \in 1..Len(phones) :
                            PriorityColumns[i] = column => written = phones[i]
                ELSE written = <<>> /\ item.fields[column] = NoneValue

\* C4 witness: a row given a name and 12 phones has been written
RowOfNameAndPhonesWitness == NamedThenPhoned /\ Len(ops[2].args) = 12

\* ------------------------------------------------------------------------
\* C5
\* ------------------------------------------------------------------------

\* C5 as stated: the header written is the same in every run and has
\* exactly 55 column names.
HeaderHas55 ==
    csv_file.opened =>
        /\ csv_file.headers = <<CSV_FILE_HEADERS>>
        /\ Len(csv_file.headers[1]) = 55

\* C5 amended: the header written is the same in every run, whatever the
\* rows are, and has exactly 56 different column names.
HeaderHas56 ==
    csv_file.opened =>
        /\ csv_file.headers = <<CSV_FILE_HEADERS>>
        /\ Len(csv_file.headers[1]) = 56
        /\ Cardinality(Range(csv_file.headers[1])) = 56

\* C5 witness: a file with several data rows has been written
HeaderHas56Witness == csv_file.opened /\ Len(csv_file.rows) >= 2

\* ------------------------------------------------------------------------
\* C6
\* ------------------------------------------------------------------------

\* C6: every data row has as many values as the header has names, and its
\* j-th value is the row's value for the j-th column of the header.
RowMatchesHeader ==
    csv_file.opened =>
        \A i \in 1..Len(csv_file.rows) :
            /\ Len(csv_file.rows[i]) = Len(csv_file.headers[1])
            /\ \A j \in 1..Len(csv_file.headers[1]) :
                  csv_file.rows[i][j] =
                      Emitted(csv_collection[i].fields[csv_file.headers[1][j]])

\* C6 witness: a row has been written after an item and a phones assignment
RowMatchesHeaderWitness ==
    /\ csv_file.opened
    /\ \E m, n \in 1..Len(ops) :
          /\ ops[m].op = "item" /\ ops[m].err = ""
          /\ ops[n].op = "phones" /\ Len(ops[n].args) > 0

\* ------------------------------------------------------------------------
\* C7
\* ------------------------------------------------------------------------

\* C7: with a number of arguments other than 1 or 2, main ends with the
\* usage message, runs no conversion and ends in no other error.
UsageOnBadArgs ==
    (pc = "done" /\ nargs \notin {1, 2}) =>
        /\ outcome = "usage"
        /\ pos = 0
        /\ ~csv_file.opened

\* ------------------------------------------------------------------------
\* C8
\* ------------------------------------------------------------------------

\* C8: the blocks emitted are the texts between END lines, each up to and
\* including its END line; the buffer holds only the lines after the last
\* END line; lines after the last END line are never emitted.
ReaderBlocks ==
    /\ emitted = ExpectedBlocks(LinesRead)
    /\ pc = "read" => buffer = Pending(LinesRead)
    /\ pc = "to_file" => (pos = Len(vcf_lines) /\ emitted = ExpectedBlocks(vcf_lines))

\* C8 witness: the input is exhausted after a block that does not start with
\* BEGIN and lines after the last END line
ReaderBlocksWitness ==
    /\ pc = "to_file"
    /\ Len(emitted) >= 1
    /\ ~StartsWith(emitted[1], BEGIN_VCARD)
    /\ Pending(vcf_lines) # <<>>

\* ------------------------------------------------------------------------
\* C9
\* ------------------------------------------------------------------------

\* C9: a line is read only when every record read so far has its row in the
\* collection, and at most one record read is without its row.
OneRecordAtATime ==
    [][ /\ pos' # pos => Len(csv_collection) = NumEnds(LinesRead)
        /\ NumEnds(SubSeq(vcf_lines', 1, pos')) - Len(csv_collection') \in {0, 1}
      ]_vars

\* C9 witness: a line of the next record has been read after a row was built
OneRecordAtATimeWitness ==
    /\ pc = "read"
    /\ Len(csv_collection) >= 1
    /\ buffer # <<>>

\* ------------------------------------------------------------------------
\* C10
\* ------------------------------------------------------------------------

\* C10: no run of the conversion ends in the KeyError of __setitem__, and
\* every column of every row built is a column of the schema.
NoKeyError ==
    /\ outcome # "KeyError"
    /\ \A i \in 1..Len(csv_collection) :
          DOMAIN csv_collection[i].fields = Range(CSV_FILE_HEADERS)

\* C10 witness: a record with more phones than phone columns has its row
NoKeyErrorWitness ==
    /\ pc = "next"
    /\ Len(extract_phones(vcard)) > Len(phone_cells)
    /\ csv_collection[Len(csv_collection)].fields["Assistant's Phone"] # NoneValue

====
